---------------------------- MODULE Spec2Model ----------------------------
(***************************************************************************)
(* Bingo Shuffler: the grid-geometry and cell-remapping engine.            *)
(*                                                                         *)
(*   src/utils/imageUtils.ts     getCellRect, isPointInRect, shuffleArray  *)
(*   src/unnamed/part_000        types: BingoSize, Rect, GridConfig,       *)
(*                               CellMapping                               *)
(*   src/unnamed/part_001        GridEditor (move / resize / pinch)        *)
(*   src/unnamed/part_002        App (image load, size, shuffle, swap,     *)
(*                               export)                                   *)
(*   src/components/BingoBoard.tsx  BingoBoard (drag and drop of cells)    *)
(*                                                                         *)
(* JavaScript numbers are modelled as exact rationals <<n, d>> in lowest   *)
(* terms with d > 0 (IEEE rounding is not modelled).  A handler runs to    *)
(* completion and the component re-renders before the next event.          *)
(***************************************************************************)
EXTENDS Integers, Sequences, FiniteSets, TLC

VARIABLES
    \* App (src/unnamed/part_002)
    image,            \* the decoded image [width, height], or Null
    gridConfig,       \* [size, rect]
    mapping,          \* sequence of [currentPos, originalPos]; position i is mapping[i+1]
    isEditingGrid,    \* TRUE: GridEditor is mounted, FALSE: BingoBoard is mounted
    pendingLoads,     \* files being read and decoded (FileReader / loadImage in flight)
    crashed,          \* an exception escaped a render effect: React unmounted the tree
    \* BingoBoard (src/components/BingoBoard.tsx)
    draggedIdx, hoverIdx, dragPos,
    \* history of the board's contacts: for the pointerId of every contact that
    \* is down, the cell it began on (or Null) and the last position it reported
    contacts,
    \* GridEditor (src/unnamed/part_001)
    isDragging, dragMode, startPos, activePointers, initialPinchDist, initialRectSize,
    \* history of the editor's contacts: the distance between the two active
    \* contacts and the rectangle's size when the number of contacts last became
    \* two, Null while it is not two
    pinchStart,
    \* calls of the pure functions of src/utils/imageUtils.ts
    fnArgs, fnRet,
    \* the handler that ran last, with its inputs and what it emitted
    lastOp,
    \* how many times Shuffle All was pressed
    nShuffles,
    \* how many rectangles the editor has emitted through onRectChange
    nRectChanges

appVars    == <<image, gridConfig, mapping, isEditingGrid, pendingLoads, crashed>>
boardVars  == <<draggedIdx, hoverIdx, dragPos, contacts>>
editorVars == <<isDragging, dragMode, startPos, activePointers, initialPinchDist,
                initialRectSize, pinchStart>>
fnVars     == <<fnArgs, fnRet>>
countVars  == <<nShuffles, nRectChanges>>
vars       == <<appVars, boardVars, editorVars, fnVars, lastOp, countVars>>

\* null is the empty tuple, a value v that may be null is held as <<v>>
Null == <<>>
Some(v) == <<v>>
Val(o) == o[1]

-----------------------------------------------------------------------------
(* Bounds of the model *)

MaxPending  == 1      \* image loads in flight at once
MaxShuffles == 1      \* presses of Shuffle All in one run
MaxRectChanges == 2  \* rectangles the editor emits in one run
AppMaxRectChanges == 1
MaxRectDim  == 450    \* largest width and height the editor's gestures are taken to
SampleStep  == 25     \* distance between the sampled points of a bitmap
MaxLen      == 4      \* longest array handed to shuffleArray
RandDen     == 4      \* Math.random() returns k / RandDen, 0 <= k < RandDen

-----------------------------------------------------------------------------
(* Numbers *)

Abs(n) == IF n < 0 THEN -n ELSE n

RECURSIVE GCD(_, _)
GCD(a, b) == IF b = 0 THEN a ELSE GCD(b, a % b)

\* n/d in lowest terms, d > 0
Q(n, d) ==
    LET g == GCD(Abs(n), Abs(d))
        s == IF d < 0 THEN -1 ELSE 1
    IN  <<(s * n) \div g, (s * d) \div g>>

N(i) == <<i, 1>>

RAdd(a, b) ==
    IF a[2] = 1 /\ b[2] = 1 THEN <<a[1] + b[1], 1>>
    ELSE Q(a[1] * b[2] + b[1] * a[2], a[2] * b[2])
RSub(a, b) ==
    IF a[2] = 1 /\ b[2] = 1 THEN <<a[1] - b[1], 1>>
    ELSE Q(a[1] * b[2] - b[1] * a[2], a[2] * b[2])
RMul(a, b) ==
    IF a[2] = 1 /\ b[2] = 1 THEN <<a[1] * b[1], 1>>
    ELSE Q(a[1] * b[1], a[2] * b[2])
RDiv(a, b) == Q(a[1] * b[2], a[2] * b[1])
RLe(a, b)  == a[1] * b[2] <= b[1] * a[2]
RLt(a, b)  == a[1] * b[2] < b[1] * a[2]
RGe(a, b)  == RLe(b, a)
RAbs(a)    == <<Abs(a[1]), a[2]>>
RMax(a, b) == IF RLt(a, b) THEN b ELSE a
RMin(a, b) == IF RLt(b, a) THEN b ELSE a
RFloor(a)  == a[1] \div a[2]

\* Math.sqrt, defined on the squares of rationals only: the pointer positions of
\* the model are chosen so that every distance taken is rational.
RECURSIVE SqrtSearch(_, _, _)
SqrtSearch(n, lo, hi) ==
    IF lo >= hi THEN lo
    ELSE LET mid == (lo + hi + 1) \div 2
         IN  IF mid * mid <= n THEN SqrtSearch(n, mid, hi) ELSE SqrtSearch(n, lo, mid - 1)
ISqrt(n)    == SqrtSearch(n, 0, n)
IsSquare(n) == ISqrt(n) * ISqrt(n) = n
HasRSqrt(a) == a[1] >= 0 /\ IsSquare(a[1]) /\ IsSquare(a[2])
RSqrt(a)    == CHOOSE r \in {<<ISqrt(a[1]), ISqrt(a[2])>>} : RMul(r, r) = a

Rect(x, y, w, h) == [x |-> x, y |-> y, width |-> w, height |-> h]
Pos(x, y) == [x |-> x, y |-> y]

\* BingoSize = 3 | 4 | 5
BingoSize == {3, 4, 5}

-----------------------------------------------------------------------------
(* src/utils/imageUtils.ts *)

\* getCellRect with the cell's width and height rounded down to whole pixels
getCellRectFloored(gridRect, size, index) ==
    LET cellWidth  == N(RFloor(RDiv(gridRect.width, N(size))))
        cellHeight == N(RFloor(RDiv(gridRect.height, N(size))))
        row == index \div size
        col == index % size
    IN  Rect(RAdd(gridRect.x, RMul(N(col), cellWidth)),
             RAdd(gridRect.y, RMul(N(row), cellHeight)),
             cellWidth, cellHeight)

getCellRect(gridRect, size, index) ==
    LET cellWidth  == RDiv(gridRect.width, N(size))
        cellHeight == RDiv(gridRect.height, N(size))
        row == index \div size
        col == index % size
    IN  Rect(RAdd(gridRect.x, RMul(N(col), cellWidth)),
             RAdd(gridRect.y, RMul(N(row), cellHeight)),
             cellWidth, cellHeight)

\* isPointInRect that leaves out the right and the bottom edge
isPointInRectHalfOpen(px, py, rect) ==
    /\ RGe(px, rect.x)
    /\ RLt(px, RAdd(rect.x, rect.width))
    /\ RGe(py, rect.y)
    /\ RLt(py, RAdd(rect.y, rect.height))

isPointInRect(px, py, rect) ==
    /\ RGe(px, rect.x)
    /\ RLe(px, RAdd(rect.x, rect.width))
    /\ RGe(py, rect.y)
    /\ RLe(py, RAdd(rect.y, rect.height))

\* The exchange written as two assignments: newArr[i] = newArr[j]; newArr[j] = newArr[i]
SwapAtOverwrite(arr, i, j) == [arr EXCEPT ![i + 1] = arr[j + 1]]

\* [newArr[i], newArr[j]] = [newArr[j], newArr[i]] on a 0-based array held as a
\* 1-based sequence
SwapAt(arr, i, j) == [arr EXCEPT ![i + 1] = arr[j + 1], ![j + 1] = arr[i + 1]]

\* The loop of shuffleArray from index i downwards; rnd is the sequence of the
\* values Math.random() returns, in the order they are drawn.
RECURSIVE ShuffleLoop(_, _, _, _)
ShuffleLoop(newArr, i, rnd, k) ==
    IF i > 0
    THEN LET j == RFloor(RMul(rnd[k], N(i + 1)))
         IN  ShuffleLoop(SwapAt(newArr, i, j), i - 1, rnd, k + 1)
    ELSE newArr

\* shuffleArray: the array returned, and the caller's array after the call
shuffleArray(array, rnd) ==
    LET newArr == array
    IN  [result |-> ShuffleLoop(newArr, Len(newArr) - 1, rnd, 1), array |-> array]

-----------------------------------------------------------------------------
(* Components' initial state (useState initial values); a component that is
   not mounted holds its initial state *)

\* BingoBoard is rendered when an image is loaded and the grid is confirmed,
\* GridEditor when an image is loaded and the grid is being edited
BoardMounted(img, editing)  == img # Null /\ ~editing
EditorMounted(img, editing) == img # Null /\ editing

BoardInitial ==
    /\ draggedIdx' = Null
    /\ hoverIdx' = Null
    /\ dragPos' = Pos(N(0), N(0))
    /\ contacts' = <<>>

EditorInitial ==
    /\ isDragging' = FALSE
    /\ dragMode' = "null"
    /\ startPos' = Pos(N(0), N(0))
    /\ activePointers' = <<>>
    /\ initialPinchDist' = Null
    /\ initialRectSize' = Null
    /\ pinchStart' = Null

\* The conditional rendering of App: a component keeps its state while it stays
\* mounted and starts from its initial state when it is mounted
Render ==
    /\ IF BoardMounted(image, isEditingGrid) /\ BoardMounted(image', isEditingGrid')
       THEN UNCHANGED boardVars ELSE BoardInitial
    /\ IF EditorMounted(image, isEditingGrid) /\ EditorMounted(image', isEditingGrid')
       THEN UNCHANGED editorVars ELSE EditorInitial

\* BingoBoard's render effect reads mapping[draggedIdx].originalPos: a TypeError
\* when the entry is undefined
BoardEffectThrows(img, editing, mp, dIdx) ==
    BoardMounted(img, editing) /\ dIdx # Null /\ Val(dIdx) >= Len(mp)

-----------------------------------------------------------------------------
(* App: src/unnamed/part_002 *)

initializeMapping(size) ==
    [i \in 1..(size * size) |-> [currentPos |-> i - 1, originalPos |-> i - 1]]

\* The rectangle taken from the longer dimension of the image
UploadRectOfMax(img) ==
    LET maxDim == RMax(N(img.width), N(img.height))
        gridW  == RMul(maxDim, Q(7, 10))
        gridH  == RMul(maxDim, Q(7, 10))
    IN  Rect(RDiv(RSub(N(img.width), gridW), N(2)),
             RDiv(RSub(N(img.height), gridH), N(2)),
             gridW, gridH)

\* The rectangle handleImageUpload computes for a decoded image
UploadRect(img) ==
    LET minDim == RMin(N(img.width), N(img.height))
        gridW  == RMul(minDim, Q(7, 10))
        gridH  == RMul(minDim, Q(7, 10))
    IN  Rect(RDiv(RSub(N(img.width), gridW), N(2)),
             RDiv(RSub(N(img.height), gridH), N(2)),
             gridW, gridH)

\* The size handleImageUpload sets
UploadSize == 5

\* handleImageUpload up to reader.readAsDataURL(file): no file chosen returns,
\* otherwise the read and the decoding are in flight
handleImageUpload(file) ==
    /\ ~crashed
    /\ IF file = Null
       THEN UNCHANGED pendingLoads
       ELSE /\ Cardinality(pendingLoads \cup {Val(file)}) <= MaxPending
            /\ pendingLoads' = pendingLoads \cup {Val(file)}
    /\ UNCHANGED <<image, gridConfig, mapping, isEditingGrid, crashed>>
    /\ UNCHANGED <<boardVars, editorVars, fnVars, countVars>>
    /\ lastOp' = [op |-> "handleImageUpload"]

\* reader.onload: loadImage resolves with the decoded image, or rejects when the
\* file is no image (the statements after the await do not run)
readerOnload(file, decodes) ==
    /\ ~crashed
    /\ file \in pendingLoads
    /\ pendingLoads' = pendingLoads \ {file}
    /\ IF decodes
       THEN LET img == [width |-> file.width, height |-> file.height]
            IN  /\ image' = Some(img)
                /\ gridConfig' = [size |-> UploadSize, rect |-> UploadRect(img)]
                /\ mapping' = initializeMapping(UploadSize)
                /\ isEditingGrid' = TRUE
                /\ Render
       ELSE UNCHANGED <<image, gridConfig, mapping, isEditingGrid, boardVars, editorVars>>
    /\ crashed' = BoardEffectThrows(image', isEditingGrid', mapping', draggedIdx')
    /\ UNCHANGED <<fnVars, countVars>>
    /\ lastOp' = [op |-> "readerOnload", decodes |-> decodes,
                  permuted |-> mapping # initializeMapping(gridConfig.size)]

\* handleSizeChange that keeps the mapping when the size pressed is the current one
handleSizeChangeKeep(newSize) ==
    /\ ~crashed
    /\ image # Null
    /\ gridConfig' = [gridConfig EXCEPT !.size = newSize]
    /\ mapping' = IF newSize = gridConfig.size THEN mapping ELSE initializeMapping(newSize)
    /\ UNCHANGED <<image, isEditingGrid, pendingLoads>>
    /\ UNCHANGED <<boardVars, editorVars, fnVars, countVars>>
    /\ crashed' = BoardEffectThrows(image', isEditingGrid', mapping', draggedIdx')
    /\ lastOp' = [op |-> "handleSizeChange",
                  permuted |-> mapping # initializeMapping(gridConfig.size)]

\* The size buttons are rendered once an image is loaded
handleSizeChange(newSize) ==
    /\ ~crashed
    /\ image # Null
    /\ gridConfig' = [gridConfig EXCEPT !.size = newSize]
    /\ mapping' = initializeMapping(newSize)
    /\ UNCHANGED <<image, isEditingGrid, pendingLoads>>
    /\ UNCHANGED <<boardVars, editorVars, fnVars, countVars>>
    /\ crashed' = BoardEffectThrows(image', isEditingGrid', mapping', draggedIdx')
    /\ lastOp' = [op |-> "handleSizeChange",
                  permuted |-> mapping # initializeMapping(gridConfig.size)]

\* onClick of the Confirm / Modify Grid Area button
toggleEditing ==
    /\ ~crashed
    /\ image # Null
    /\ isEditingGrid' = ~isEditingGrid
    /\ UNCHANGED <<image, gridConfig, mapping, pendingLoads, crashed>>
    /\ Render
    /\ UNCHANGED <<fnVars, countVars>>
    /\ lastOp' = [op |-> "toggleEditing"]

\* The new mapping handleShuffle passes to setMapping
ShuffledMapping(mp, rnd) ==
    LET originalPositions == [i \in 1..Len(mp) |-> mp[i].originalPos]
        shuffled == shuffleArray(originalPositions, rnd).result
    IN  [i \in 1..Len(mp) |-> [mp[i] EXCEPT !.originalPos = shuffled[i]]]

\* The Shuffle All button is rendered while the board is shown
handleShuffle(rnd) ==
    /\ ~crashed
    /\ image # Null /\ ~isEditingGrid
    /\ nShuffles < MaxShuffles
    /\ nShuffles' = nShuffles + 1
    /\ UNCHANGED nRectChanges
    /\ mapping' = ShuffledMapping(mapping, rnd)
    /\ UNCHANGED <<image, gridConfig, isEditingGrid, pendingLoads, crashed>>
    /\ UNCHANGED <<boardVars, editorVars, fnVars>>
    /\ lastOp' = [op |-> "handleShuffle"]

\* handleSwap reads newMapping[idxA].originalPos and newMapping[idxB].originalPos
\* before it writes anything: a TypeError when either entry is undefined
SwapThrows(mp, idxA, idxB) == idxA >= Len(mp) \/ idxB >= Len(mp)

\* handleSwap without the temporary: the second write copies the value just written
SwappedMappingNoTemp(mp, idxA, idxB) ==
    LET m1 == [mp EXCEPT ![idxA + 1].originalPos = mp[idxB + 1].originalPos]
    IN  [m1 EXCEPT ![idxB + 1].originalPos = m1[idxA + 1].originalPos]

\* The new mapping handleSwap passes to setMapping
SwappedMapping(mp, idxA, idxB) ==
    LET temp == mp[idxA + 1].originalPos
        m1   == [mp EXCEPT ![idxA + 1].originalPos = mp[idxB + 1].originalPos]
    IN  [m1 EXCEPT ![idxB + 1].originalPos = temp]


(* The canvas of downloadImage.  A bitmap is sampled at the points of a lattice;
   the pixel of the source image at point q is named by q itself, so a canvas
   maps each of its points to the image point shown there (Null: nothing drawn).
   A rectangle covers the points p with x <= p.x < x + width, y <= p.y < y + height. *)

SamplePoints(width, height) ==
    { Pos(N(i * SampleStep), N(j * SampleStep)) :
        i \in 0..((width - 1) \div SampleStep), j \in 0..((height - 1) \div SampleStep) }

Covers(x, y, w, h, p) ==
    /\ RLe(x, p.x) /\ RLt(p.x, RAdd(x, w))
    /\ RLe(y, p.y) /\ RLt(p.y, RAdd(y, h))

\* document.createElement('canvas') with canvas.width, canvas.height set
createCanvas(width, height) == [p \in SamplePoints(width, height) |-> Null]

\* ctx.drawImage(image, sx, sy, sw, sh, dx, dy, dw, dh): the source rectangle is
\* clipped to the image, and the destination to the canvas
drawImage(cv, img, sx, sy, sw, sh, dx, dy, dw, dh) ==
    [p \in DOMAIN cv |->
        LET q == Pos(RAdd(sx, RDiv(RMul(RSub(p.x, dx), sw), dw)),
                     RAdd(sy, RDiv(RMul(RSub(p.y, dy), sh), dh)))
        IN  IF /\ Covers(dx, dy, dw, dh, p)
               /\ Covers(N(0), N(0), N(img.width), N(img.height), q)
            THEN Some(q) ELSE cv[p]]

\* ctx.drawImage(image, 0, 0)
drawImageAt(cv, img, dx, dy) ==
    drawImage(cv, img, N(0), N(0), N(img.width), N(img.height),
              dx, dy, N(img.width), N(img.height))

\* The iteration with source and target exchanged: the cell of position i is
\* drawn at the cell of m.originalPos
DrawCellReversed(cv, img, rect, size, m, i) ==
    LET cellW   == RDiv(rect.width, N(size))
        cellH   == RDiv(rect.height, N(size))
        targetX == RAdd(rect.x, RMul(N(m.originalPos % size), cellW))
        targetY == RAdd(rect.y, RMul(N(m.originalPos \div size), cellH))
        sourceX == RAdd(rect.x, RMul(N(i % size), cellW))
        sourceY == RAdd(rect.y, RMul(N(i \div size), cellH))
    IN  drawImage(cv, img, sourceX, sourceY, cellW, cellH, targetX, targetY, cellW, cellH)

\* One iteration of mapping.forEach((m, i) => ...) of downloadImage
DrawCell(cv, img, rect, size, m, i) ==
    LET cellW   == RDiv(rect.width, N(size))
        cellH   == RDiv(rect.height, N(size))
        targetX == RAdd(rect.x, RMul(N(i % size), cellW))
        targetY == RAdd(rect.y, RMul(N(i \div size), cellH))
        sourceX == RAdd(rect.x, RMul(N(m.originalPos % size), cellW))
        sourceY == RAdd(rect.y, RMul(N(m.originalPos \div size), cellH))
    IN  drawImage(cv, img, sourceX, sourceY, cellW, cellH, targetX, targetY, cellW, cellH)

RECURSIVE DrawCells(_, _, _, _, _, _)
DrawCells(cv, img, rect, size, mp, i) ==
    IF i >= Len(mp) THEN cv
    ELSE DrawCells(DrawCell(cv, img, rect, size, mp[i + 1], i), img, rect, size, mp, i + 1)

\* The bitmap downloadImage hands to canvas.toDataURL
ExportCanvas(img, cfg, mp) ==
    LET canvas == createCanvas(img.width, img.height)
        base   == drawImageAt(canvas, img, N(0), N(0))
    IN  DrawCells(base, img, cfg.rect, cfg.size, mp, 0)

\* The Download button is rendered while the board is shown; ctxOk is whether
\* canvas.getContext('2d') returned a context
downloadImage(ctxOk) ==
    /\ ~crashed
    /\ image # Null /\ ~isEditingGrid
    /\ UNCHANGED <<appVars, boardVars, editorVars, fnVars, countVars>>
    /\ lastOp' = [op |-> "downloadImage",
                  canvas |-> IF ctxOk THEN Some(ExportCanvas(Val(image), gridConfig, mapping))
                             ELSE Null]

-----------------------------------------------------------------------------
(* Pointer positions *)

\* canvas.getBoundingClientRect(): the canvas is shown unscaled at a fixed place
\* of the page
BoundingClientRect(img) ==
    [left |-> N(20), top |-> N(100), width |-> N(img.width), height |-> N(img.height)]

getCanvasMousePos(clientX, clientY, img) ==
    LET bRect  == BoundingClientRect(img)
        scaleX == RDiv(N(img.width), bRect.width)
        scaleY == RDiv(N(img.height), bRect.height)
    IN  Pos(RMul(RSub(clientX, bRect.left), scaleX),
            RMul(RSub(clientY, bRect.top), scaleY))

\* The client position of the pointer that is at canvas position (x, y)
Client(x, y) == Pos(N(x + 20), N(y + 100))

-----------------------------------------------------------------------------
(* BingoBoard: src/components/BingoBoard.tsx *)

\* for (let i = 0; i < size * size; i++) { if (isPointInRect(...)) { ...; break } }
CellAt(rect, size, pos) ==
    LET hits == { i \in 0..(size * size - 1) :
                    isPointInRect(pos.x, pos.y, getCellRect(rect, size, i)) }
    IN  IF hits = {} THEN Null
        ELSE Some(CHOOSE i \in hits : \A k \in hits : i <= k)

\* handleSwap of App, passed to the board as onSwap
handleSwap(idxA, idxB) ==
    mapping' = SwappedMapping(mapping, idxA, idxB)

BingoBoard_handlePointerDown(client) ==
    /\ ~crashed
    /\ BoardMounted(image, isEditingGrid)
    /\ LET pos  == getCanvasMousePos(client.x, client.y, Val(image))
           cell == CellAt(gridConfig.rect, gridConfig.size, pos)
       IN  /\ IF cell # Null
              THEN draggedIdx' = cell /\ dragPos' = pos
              ELSE UNCHANGED <<draggedIdx, dragPos>>
           /\ lastOp' = [op |-> "BingoBoard.handlePointerDown", pos |-> pos]
    /\ UNCHANGED hoverIdx
    /\ UNCHANGED <<image, gridConfig, mapping, isEditingGrid, pendingLoads>>
    /\ crashed' = BoardEffectThrows(image', isEditingGrid', mapping', draggedIdx')
    /\ UNCHANGED <<editorVars, fnVars, countVars>>

BingoBoard_handlePointerMove(client) ==
    /\ ~crashed
    /\ BoardMounted(image, isEditingGrid)
    /\ LET pos == getCanvasMousePos(client.x, client.y, Val(image))
       IN  /\ IF draggedIdx = Null
              THEN UNCHANGED <<dragPos, hoverIdx>>
              ELSE /\ dragPos' = pos
                   /\ hoverIdx' = CellAt(gridConfig.rect, gridConfig.size, pos)
           /\ lastOp' = [op |-> "BingoBoard.handlePointerMove"]
    /\ UNCHANGED draggedIdx
    /\ UNCHANGED <<image, gridConfig, mapping, isEditingGrid, pendingLoads>>
    /\ crashed' = BoardEffectThrows(image', isEditingGrid', mapping', draggedIdx')
    /\ UNCHANGED <<editorVars, fnVars, countVars>>

\* handlePointerUp without the test draggedIdx !== hoverIdx
BingoBoard_handlePointerUpNoSelfTest ==
    /\ ~crashed
    /\ BoardMounted(image, isEditingGrid)
    /\ IF draggedIdx # Null /\ hoverIdx # Null
       THEN IF SwapThrows(mapping, Val(draggedIdx), Val(hoverIdx))
            THEN /\ UNCHANGED <<mapping, draggedIdx, hoverIdx>>
                 /\ lastOp' = [op |-> "BingoBoard.handlePointerUp", swap |-> "threw",
                               dragged |-> draggedIdx, hover |-> hoverIdx]
            ELSE /\ handleSwap(Val(draggedIdx), Val(hoverIdx))
                 /\ draggedIdx' = Null
                 /\ hoverIdx' = Null
                 /\ lastOp' = [op |-> "BingoBoard.handlePointerUp", swap |-> "done",
                               dragged |-> draggedIdx, hover |-> hoverIdx]
       ELSE /\ UNCHANGED mapping
            /\ draggedIdx' = Null
            /\ hoverIdx' = Null
            /\ lastOp' = [op |-> "BingoBoard.handlePointerUp", swap |-> "none",
                          dragged |-> draggedIdx, hover |-> hoverIdx]
    /\ UNCHANGED dragPos
    /\ UNCHANGED <<image, gridConfig, isEditingGrid, pendingLoads>>
    /\ crashed' = BoardEffectThrows(image', isEditingGrid', mapping', draggedIdx')
    /\ UNCHANGED <<editorVars, fnVars, countVars>>

\* onPointerUp and onPointerCancel.  When handleSwap throws, the statements after
\* onSwap(...) do not run.
BingoBoard_handlePointerUp ==
    /\ ~crashed
    /\ BoardMounted(image, isEditingGrid)
    /\ IF draggedIdx # Null /\ hoverIdx # Null /\ draggedIdx # hoverIdx
       THEN IF SwapThrows(mapping, Val(draggedIdx), Val(hoverIdx))
            THEN /\ UNCHANGED <<mapping, draggedIdx, hoverIdx>>
                 /\ lastOp' = [op |-> "BingoBoard.handlePointerUp", swap |-> "threw",
                               dragged |-> draggedIdx, hover |-> hoverIdx]
            ELSE /\ handleSwap(Val(draggedIdx), Val(hoverIdx))
                 /\ draggedIdx' = Null
                 /\ hoverIdx' = Null
                 /\ lastOp' = [op |-> "BingoBoard.handlePointerUp", swap |-> "done",
                               dragged |-> draggedIdx, hover |-> hoverIdx]
       ELSE /\ UNCHANGED mapping
            /\ draggedIdx' = Null
            /\ hoverIdx' = Null
            /\ lastOp' = [op |-> "BingoBoard.handlePointerUp", swap |-> "none",
                          dragged |-> draggedIdx, hover |-> hoverIdx]
    /\ UNCHANGED dragPos
    /\ UNCHANGED <<image, gridConfig, isEditingGrid, pendingLoads>>
    /\ crashed' = BoardEffectThrows(image', isEditingGrid', mapping', draggedIdx')
    /\ UNCHANGED <<editorVars, fnVars, countVars>>


\* The pointer events of the board's canvas, each of one contact.  The handlers
\* do not look at e.pointerId (handlePointerUp takes no event at all): which
\* contact began where and what it reported last is kept as history only.
Board_onPointerDown(pointerId, client) ==
    /\ BingoBoard_handlePointerDown(client)
    /\ contacts' = [k \in DOMAIN contacts \cup {pointerId} |->
                      IF k = pointerId
                      THEN [began |-> CellAt(gridConfig.rect, gridConfig.size,
                                             getCanvasMousePos(client.x, client.y, Val(image))),
                            last  |-> getCanvasMousePos(client.x, client.y, Val(image))]
                      ELSE contacts[k]]

Board_onPointerMove(pointerId, client) ==
    /\ BingoBoard_handlePointerMove(client)
    /\ contacts' = [k \in DOMAIN contacts |->
                      IF k = pointerId
                      THEN [contacts[k] EXCEPT
                              !.last = getCanvasMousePos(client.x, client.y, Val(image))]
                      ELSE contacts[k]]

Board_onPointerUp(pointerId) ==
    /\ BingoBoard_handlePointerUp
    /\ contacts' = [k \in DOMAIN contacts \ {pointerId} |-> contacts[k]]

-----------------------------------------------------------------------------
(* GridEditor: src/unnamed/part_001 *)

\* activePointers is a Map: a sequence of [id, pos] in insertion order
MapHas(m, id) == \E k \in 1..Len(m) : m[k].id = id
MapSet(m, id, pos) ==
    IF MapHas(m, id)
    THEN [k \in 1..Len(m) |-> IF m[k].id = id THEN [id |-> id, pos |-> pos] ELSE m[k]]
    ELSE Append(m, [id |-> id, pos |-> pos])
MapDelete(m, id) == SelectSeq(m, LAMBDA e : e.id # id)
\* Array.from(newPointers.values())
MapValues(m) == [k \in 1..Len(m) |-> m[k].pos]

\* The argument of Math.sqrt in getDistance
DistanceSquared(p1, p2) ==
    RAdd(RMul(RSub(p2.x, p1.x), RSub(p2.x, p1.x)),
         RMul(RSub(p2.y, p1.y), RSub(p2.y, p1.y)))

getDistance(p1, p2) == RSqrt(DistanceSquared(p1, p2))

\* The radius of the resize handle's hit area and the least width and height
HandleReach == 30
MinRectSize == 40

\* The handle test with <= 30
isNearHandleInclusive(pos, rect) ==
    /\ RLe(RAbs(RSub(pos.x, RAdd(rect.x, rect.width))), N(HandleReach))
    /\ RLe(RAbs(RSub(pos.y, RAdd(rect.y, rect.height))), N(HandleReach))

isNearHandle(pos, rect) ==
    /\ RLt(RAbs(RSub(pos.x, RAdd(rect.x, rect.width))), N(HandleReach))
    /\ RLt(RAbs(RSub(pos.y, RAdd(rect.y, rect.height))), N(HandleReach))

\* pos.x >= rect.x && pos.x <= rect.x + rect.width && pos.y >= ... (line 93)
isInsideRect(pos, rect) ==
    /\ RGe(pos.x, rect.x) /\ RLe(pos.x, RAdd(rect.x, rect.width))
    /\ RGe(pos.y, rect.y) /\ RLe(pos.y, RAdd(rect.y, rect.height))

\* onRectChange that sets the size of a fresh upload with the rect
onRectChangeDefaultSize(rect) ==
    /\ gridConfig' = [size |-> UploadSize, rect |-> rect]
    /\ nRectChanges < MaxRectChanges
    /\ nRectChanges' = nRectChanges + 1

\* onRectChange={(rect) => setGridConfig({ ...gridConfig, rect })}
onRectChange(rect) ==
    /\ gridConfig' = [gridConfig EXCEPT !.rect = rect]
    /\ nRectChanges < MaxRectChanges
    /\ nRectChanges' = nRectChanges + 1

\* The move that puts the rectangle's corner at the pointer
MovedRectToPointer(rect, pos, start) ==
    [rect EXCEPT !.x = pos.x, !.y = pos.y]

\* The rectangles handlePointerMove passes to onRectChange
MovedRect(rect, pos, start) ==
    LET dx == RSub(pos.x, start.x)
        dy == RSub(pos.y, start.y)
    IN  [rect EXCEPT !.x = RAdd(rect.x, dx), !.y = RAdd(rect.y, dy)]

\* The resize without the clamp
ResizedRectNoClamp(rect, pos, start) ==
    LET dx == RSub(pos.x, start.x)
        dy == RSub(pos.y, start.y)
    IN  [rect EXCEPT !.width = RAdd(rect.width, dx), !.height = RAdd(rect.height, dy)]

ResizedRect(rect, pos, start) ==
    LET dx == RSub(pos.x, start.x)
        dy == RSub(pos.y, start.y)
    IN  [rect EXCEPT !.width  = RMax(N(MinRectSize), RAdd(rect.width, dx)),
                     !.height = RMax(N(MinRectSize), RAdd(rect.height, dy))]

\* The pinch that scales from the top-left corner instead of the centre
PinchedRectTopLeft(rect, pts, pinchDist, rectSize) ==
    LET currentDist == getDistance(pts[1], pts[2])
        scale     == RDiv(currentDist, pinchDist)
    IN  Rect(rect.x, rect.y,
             RMax(N(MinRectSize), RMul(rectSize.w, scale)),
             RMax(N(MinRectSize), RMul(rectSize.h, scale)))

PinchedRect(rect, pts, pinchDist, rectSize) ==
    LET currentDist == getDistance(pts[1], pts[2])
        scale     == RDiv(currentDist, pinchDist)
        newWidth  == RMax(N(MinRectSize), RMul(rectSize.w, scale))
        newHeight == RMax(N(MinRectSize), RMul(rectSize.h, scale))
        centerX   == RAdd(rect.x, RDiv(rect.width, N(2)))
        centerY   == RAdd(rect.y, RDiv(rect.height, N(2)))
    IN  Rect(RSub(centerX, RDiv(newWidth, N(2))),
             RSub(centerY, RDiv(newHeight, N(2))),
             newWidth, newHeight)

\* The model takes distances that are rational only, and keeps the rectangle's
\* width and height within MaxRectDim
DistancesRational(pts) ==
    Len(pts) >= 2 => HasRSqrt(DistanceSquared(pts[1], pts[2]))
WithinBound(rect) ==
    RLe(rect.width, N(MaxRectDim)) /\ RLe(rect.height, N(MaxRectDim))

\* handlePointerDown that records the pinch baselines only when none are set
\* The history of the contacts after a contact began or ended: with two contacts
\* left, how far apart they are and how large the rectangle is at that moment
PinchStartAfter(newPointers, rect) ==
    IF Len(newPointers) = 2
    THEN Some([dist |-> getDistance(MapValues(newPointers)[1], MapValues(newPointers)[2]),
               size |-> [w |-> rect.width, h |-> rect.height]])
    ELSE Null

GridEditor_handlePointerDownKeepsBaseline(pointerId, client) ==
    /\ ~crashed
    /\ EditorMounted(image, isEditingGrid)
    /\ LET pos         == getCanvasMousePos(client.x, client.y, Val(image))
           rect        == gridConfig.rect
           newPointers == MapSet(activePointers, pointerId, pos)
           pts         == MapValues(newPointers)
       IN  /\ DistancesRational(pts)
           /\ activePointers' = newPointers
           /\ pinchStart' = PinchStartAfter(newPointers, rect)
           /\ IF Len(newPointers) = 1
              THEN /\ IF isNearHandle(pos, rect)
                      THEN dragMode' = "resize-br" /\ startPos' = pos /\ isDragging' = TRUE
                      ELSE IF isInsideRect(pos, rect)
                           THEN dragMode' = "move" /\ startPos' = pos /\ isDragging' = TRUE
                           ELSE UNCHANGED <<dragMode, startPos, isDragging>>
                   /\ UNCHANGED <<initialPinchDist, initialRectSize>>
              ELSE IF Len(newPointers) = 2
                   THEN /\ dragMode' = "pinch"
                        /\ initialPinchDist' = IF initialPinchDist = Null
                                               THEN Some(getDistance(pts[1], pts[2]))
                                               ELSE initialPinchDist
                        /\ initialRectSize' = IF initialRectSize = Null
                                              THEN Some([w |-> rect.width, h |-> rect.height])
                                              ELSE initialRectSize
                        /\ isDragging' = TRUE
                        /\ UNCHANGED startPos
                   ELSE UNCHANGED <<dragMode, startPos, isDragging, initialPinchDist,
                                    initialRectSize>>
           /\ lastOp' = [op |-> "GridEditor.handlePointerDown", pointerId |-> pointerId,
                         pos |-> pos, emitted |-> Null, update |-> "none",
                         prior |-> dragMode]
    /\ UNCHANGED <<appVars, boardVars, fnVars, countVars>>

GridEditor_handlePointerDown(pointerId, client) ==
    /\ ~crashed
    /\ EditorMounted(image, isEditingGrid)
    /\ LET pos         == getCanvasMousePos(client.x, client.y, Val(image))
           rect        == gridConfig.rect
           newPointers == MapSet(activePointers, pointerId, pos)
           pts         == MapValues(newPointers)
       IN  /\ DistancesRational(pts)
           /\ activePointers' = newPointers
           /\ pinchStart' = PinchStartAfter(newPointers, rect)
           /\ IF Len(newPointers) = 1
              THEN /\ IF isNearHandle(pos, rect)
                      THEN dragMode' = "resize-br" /\ startPos' = pos /\ isDragging' = TRUE
                      ELSE IF isInsideRect(pos, rect)
                           THEN dragMode' = "move" /\ startPos' = pos /\ isDragging' = TRUE
                           ELSE UNCHANGED <<dragMode, startPos, isDragging>>
                   /\ UNCHANGED <<initialPinchDist, initialRectSize>>
              ELSE IF Len(newPointers) = 2
                   THEN /\ dragMode' = "pinch"
                        /\ initialPinchDist' = Some(getDistance(pts[1], pts[2]))
                        /\ initialRectSize' = Some([w |-> rect.width, h |-> rect.height])
                        /\ isDragging' = TRUE
                        /\ UNCHANGED startPos
                   ELSE UNCHANGED <<dragMode, startPos, isDragging, initialPinchDist,
                                    initialRectSize>>
           /\ lastOp' = [op |-> "GridEditor.handlePointerDown", pointerId |-> pointerId,
                         pos |-> pos, emitted |-> Null, update |-> "none",
                         prior |-> dragMode]
    /\ UNCHANGED <<appVars, boardVars, fnVars, countVars>>

GridEditor_handlePointerMove(pointerId, client) ==
    /\ ~crashed
    /\ EditorMounted(image, isEditingGrid)
    /\ LET pos         == getCanvasMousePos(client.x, client.y, Val(image))
           rect        == gridConfig.rect
           newPointers == MapSet(activePointers, pointerId, pos)
           pts         == MapValues(newPointers)
           ignored     == [op |-> "GridEditor.handlePointerMove", pointerId |-> pointerId,
                           pos |-> pos, emitted |-> Null, update |-> "none"]
       IN  IF ~MapHas(activePointers, pointerId)
           THEN /\ UNCHANGED <<editorVars, gridConfig, nRectChanges>>
                /\ lastOp' = ignored
           ELSE /\ DistancesRational(pts)
                /\ activePointers' = newPointers
                /\ UNCHANGED <<isDragging, dragMode, initialPinchDist, initialRectSize,
                               pinchStart>>
                /\ IF ~isDragging
                   THEN /\ UNCHANGED <<startPos, gridConfig, nRectChanges>>
                        /\ lastOp' = ignored
                   ELSE IF dragMode = "move" /\ Len(newPointers) = 1
                   THEN /\ onRectChange(MovedRect(rect, pos, startPos))
                        /\ startPos' = pos
                        /\ lastOp' = [ignored EXCEPT !.emitted = Some(gridConfig'.rect),
                                                     !.update = "move"]
                   ELSE IF dragMode = "resize-br" /\ Len(newPointers) = 1
                   THEN /\ WithinBound(ResizedRect(rect, pos, startPos))
                        /\ onRectChange(ResizedRect(rect, pos, startPos))
                        /\ startPos' = pos
                        /\ lastOp' = [ignored EXCEPT !.emitted = Some(gridConfig'.rect),
                                                     !.update = "resize"]
                   ELSE IF /\ dragMode = "pinch" /\ Len(newPointers) = 2
                           /\ initialPinchDist # Null /\ Val(initialPinchDist) # N(0)
                           /\ initialRectSize # Null
                   THEN /\ WithinBound(PinchedRect(rect, pts, Val(initialPinchDist),
                                                   Val(initialRectSize)))
                        /\ onRectChange(PinchedRect(rect, pts, Val(initialPinchDist),
                                                    Val(initialRectSize)))
                        /\ UNCHANGED startPos
                        /\ lastOp' = [ignored EXCEPT !.emitted = Some(gridConfig'.rect),
                                                     !.update = "pinch"]
                   ELSE /\ UNCHANGED <<startPos, gridConfig, nRectChanges>>
                        /\ lastOp' = ignored
    /\ UNCHANGED <<image, mapping, isEditingGrid, pendingLoads, crashed>>
    /\ UNCHANGED <<boardVars, fnVars, nShuffles>>

\* handlePointerUp that treats the last contact like any other: only
\* setDragMode(null)
GridEditor_handlePointerUpKeepsGesture(pointerId) ==
    /\ ~crashed
    /\ EditorMounted(image, isEditingGrid)
    /\ LET newPointers == MapDelete(activePointers, pointerId)
       IN  /\ activePointers' = newPointers
           /\ pinchStart' = PinchStartAfter(newPointers, gridConfig.rect)
           /\ IF Len(newPointers) <= 1
              THEN /\ dragMode' = "null"
                   /\ UNCHANGED <<isDragging, initialPinchDist, initialRectSize>>
              ELSE UNCHANGED <<isDragging, dragMode, initialPinchDist, initialRectSize>>
    /\ UNCHANGED startPos
    /\ lastOp' = [op |-> "GridEditor.handlePointerUp", pointerId |-> pointerId,
                  emitted |-> Null, update |-> "none"]
    /\ UNCHANGED <<appVars, boardVars, fnVars, countVars>>

\* handlePointerUp that goes back to move when one contact remains
GridEditor_handlePointerUpRestartsMove(pointerId) ==
    /\ ~crashed
    /\ EditorMounted(image, isEditingGrid)
    /\ LET newPointers == MapDelete(activePointers, pointerId)
       IN  /\ activePointers' = newPointers
           /\ pinchStart' = PinchStartAfter(newPointers, gridConfig.rect)
           /\ IF Len(newPointers) = 0
              THEN /\ isDragging' = FALSE
                   /\ dragMode' = "null"
                   /\ initialPinchDist' = Null
                   /\ initialRectSize' = Null
              ELSE IF Len(newPointers) = 1
                   THEN /\ dragMode' = "move"
                        /\ UNCHANGED <<isDragging, initialPinchDist, initialRectSize>>
                   ELSE UNCHANGED <<isDragging, dragMode, initialPinchDist, initialRectSize>>
    /\ UNCHANGED startPos
    /\ lastOp' = [op |-> "GridEditor.handlePointerUp", pointerId |-> pointerId,
                  emitted |-> Null, update |-> "none"]
    /\ UNCHANGED <<appVars, boardVars, fnVars, countVars>>

\* onPointerUp and onPointerCancel
GridEditor_handlePointerUp(pointerId) ==
    /\ ~crashed
    /\ EditorMounted(image, isEditingGrid)
    /\ LET newPointers == MapDelete(activePointers, pointerId)
       IN  /\ activePointers' = newPointers
           /\ pinchStart' = PinchStartAfter(newPointers, gridConfig.rect)
           /\ IF Len(newPointers) = 0
              THEN /\ isDragging' = FALSE
                   /\ dragMode' = "null"
                   /\ initialPinchDist' = Null
                   /\ initialRectSize' = Null
              ELSE IF Len(newPointers) = 1
                   THEN /\ dragMode' = "null"
                        /\ UNCHANGED <<isDragging, initialPinchDist, initialRectSize>>
                   ELSE UNCHANGED <<isDragging, dragMode, initialPinchDist, initialRectSize>>
    /\ UNCHANGED startPos
    /\ lastOp' = [op |-> "GridEditor.handlePointerUp", pointerId |-> pointerId,
                  emitted |-> Null, update |-> "none"]
    /\ UNCHANGED <<appVars, boardVars, fnVars, countVars>>

-----------------------------------------------------------------------------
(* Calls of the pure functions of src/utils/imageUtils.ts *)

\* BingoBoard's loops call getCellRect for every index of the grid
callGetCellRect ==
    /\ fnArgs # Null /\ Val(fnArgs).fn = "geometry"
    /\ LET a == Val(fnArgs)
       IN  fnRet' = Some([fn |-> "getCellRect",
                          cells |-> [i \in 0..(a.size * a.size - 1) |->
                                        getCellRect(a.rect, a.size, i)]])
    /\ UNCHANGED <<fnArgs, appVars, boardVars, editorVars, countVars>>
    /\ lastOp' = [op |-> "getCellRect"]

callIsPointInRect ==
    /\ fnArgs # Null /\ Val(fnArgs).fn = "geometry"
    /\ LET a == Val(fnArgs)
       IN  fnRet' = Some([fn |-> "isPointInRect", value |-> isPointInRect(a.px, a.py, a.rect)])
    /\ UNCHANGED <<fnArgs, appVars, boardVars, editorVars, countVars>>
    /\ lastOp' = [op |-> "isPointInRect"]

\* Math.random() returns a value of [0, 1)
RandVals == { Q(k, RandDen) : k \in 0..(RandDen - 1) }

callShuffleArray(rnd) ==
    /\ fnArgs # Null /\ Val(fnArgs).fn = "shuffle"
    /\ LET r == shuffleArray(Val(fnArgs).array, rnd)
       IN  /\ fnRet' = Some([fn |-> "shuffleArray", result |-> r.result, input |-> Val(fnArgs).array])
           /\ fnArgs' = Some([Val(fnArgs) EXCEPT !.array = r.array])
    /\ UNCHANGED <<appVars, boardVars, editorVars, countVars>>
    /\ lastOp' = [op |-> "shuffleArray"]

-----------------------------------------------------------------------------
(* Inputs *)

\* The files the user picks, by the size of the image they hold
Files == { [width |-> 300, height |-> 300] }
MoreFiles == Files \cup { [width |-> 400, height |-> 200], [width |-> 200, height |-> 500] }

\* Pointer positions on the board's canvas
BoardPoints == { Client(50, 50), Client(250, 250), Client(10, 10) }

\* Pointer positions on the editor's canvas; their distances are rational
EditorPoints == { Client(70, 10), Client(160, 130), Client(250, 250) }

\* e.pointerId of the contacts
PointerIds == {1, 2}

\* The values Math.random() returns during one press of Shuffle All
ShuffleDraws == { [k \in 1..24 |-> r] : r \in {Q(1, 2), Q(9, 10)} }

\* Rectangles and probe points for the geometry functions
GeometryRects ==
    { Rect(x, y, w, h) : x \in {N(0), N(45), Q(-35, 2)}, y \in {N(0), N(30)},
                         w \in {N(40), N(100), N(210)}, h \in {N(40), N(210), Q(281, 2)} }
ProbesOf(lo, len) ==
    { RSub(lo, Q(1, 100)), lo, RAdd(lo, RDiv(len, N(2))), RAdd(lo, len),
      RAdd(RAdd(lo, len), Q(1, 100)) }
GeometryArgs ==
    UNION { { [fn |-> "geometry", rect |-> r, size |-> s, px |-> px, py |-> py] :
                s \in BingoSize, px \in ProbesOf(r.x, r.width),
                py \in ProbesOf(r.y, r.height) } : r \in GeometryRects }

Elements == {"a", "b", "c"}
ShuffleArgs ==
    { [fn |-> "shuffle", array |-> a] :
        a \in UNION { [1..n -> Elements] : n \in 0..MaxLen } }

-----------------------------------------------------------------------------
(* Specifications *)

\* App before any image is chosen
AppInitial ==
    /\ image = Null
    /\ gridConfig = [size |-> 5, rect |-> Rect(N(50), N(50), N(300), N(300))]
    /\ mapping = <<>>
    /\ isEditingGrid = TRUE
    /\ pendingLoads = {}
    /\ crashed = FALSE
    /\ draggedIdx = Null /\ hoverIdx = Null /\ dragPos = Pos(N(0), N(0))
    /\ contacts = <<>>
    /\ isDragging = FALSE /\ dragMode = "null" /\ startPos = Pos(N(0), N(0))
    /\ activePointers = <<>> /\ initialPinchDist = Null /\ initialRectSize = Null
    /\ pinchStart = Null
    /\ nShuffles = 0 /\ nRectChanges = 0

Init ==
    /\ AppInitial
    /\ fnArgs = Null /\ fnRet = Null
    /\ lastOp = [op |-> "init"]

Next ==
    \/ \E file \in {Null} \cup { Some(f) : f \in Files } : handleImageUpload(file)
    \/ \E file \in Files, decodes \in BOOLEAN : readerOnload(file, decodes)
    \/ \E newSize \in BingoSize : handleSizeChange(newSize)
    \/ toggleEditing
    \/ \E rnd \in ShuffleDraws : handleShuffle(rnd)
    \/ \E client \in BoardPoints :
            BingoBoard_handlePointerDown(client) /\ UNCHANGED contacts
    \/ \E client \in BoardPoints :
            BingoBoard_handlePointerMove(client) /\ UNCHANGED contacts
    \/ BingoBoard_handlePointerUp /\ UNCHANGED contacts

\* App and BingoBoard, from the start of the program
Spec == Init /\ [][Next]_vars

\* App once an image is loaded and the region is rect
Loaded(file, rect, editing) ==
    /\ image = Some([width |-> file.width, height |-> file.height])
    /\ gridConfig = [size |-> UploadSize, rect |-> rect]
    /\ mapping = initializeMapping(UploadSize)
    /\ isEditingGrid = editing
    /\ pendingLoads = {}
    /\ crashed = FALSE
    /\ draggedIdx = Null /\ hoverIdx = Null /\ dragPos = Pos(N(0), N(0))
    /\ contacts = <<>>
    /\ isDragging = FALSE /\ dragMode = "null" /\ startPos = Pos(N(0), N(0))
    /\ activePointers = <<>> /\ initialPinchDist = Null /\ initialRectSize = Null
    /\ pinchStart = Null
    /\ nShuffles = 0 /\ nRectChanges = 0

\* The editor starts on the region as loaded, or on the region {0,0,100,100}
\* that a move by (-45,-45) and a resize by (-110,-110) take it to
EditorRects(img) ==
    { UploadRect(img),
      ResizedRect(MovedRect(UploadRect(img), Pos(N(5), N(5)), Pos(N(50), N(50))),
                  Pos(N(100), N(100)), Pos(N(210), N(210))) }

InitEditor ==
    /\ \E r \in EditorRects([width |-> 300, height |-> 300]) :
         Loaded([width |-> 300, height |-> 300], r, TRUE)
    /\ fnArgs = Null /\ fnRet = Null
    /\ lastOp = [op |-> "init"]

NextEditor ==
    \/ \E id \in PointerIds, client \in EditorPoints :
            GridEditor_handlePointerDown(id, client)
    \/ \E id \in PointerIds, client \in EditorPoints :
            GridEditor_handlePointerMove(id, client)
    \/ \E id \in PointerIds : GridEditor_handlePointerUp(id)

\* GridEditor, from the moment the image is loaded
SpecEditor == InitEditor /\ [][NextEditor]_vars

\* One contact on the editor: positions inside the region as loaded, on its left
\* edge, just outside it, at exactly 30 and at less than 30 pixels from its
\* bottom-right corner (inside and outside the region)
GesturePoints ==
    { Client(45, 150), Client(44, 150), Client(225, 225), Client(226, 226),
      Client(270, 270) }

InitGesture ==
    /\ Loaded([width |-> 300, height |-> 300], UploadRect([width |-> 300, height |-> 300]), TRUE)
    /\ fnArgs = Null /\ fnRet = Null
    /\ lastOp = [op |-> "init"]

NextGesture ==
    \/ \E client \in GesturePoints : GridEditor_handlePointerDown(1, client)
    \/ \E client \in GesturePoints : GridEditor_handlePointerMove(1, client)
    \/ GridEditor_handlePointerUp(1)

\* GridEditor with a single contact
SpecGesture == InitGesture /\ [][NextGesture]_vars

\* Three fingers on the editor's canvas, each with its own pointerId and each
\* at a place of its own on one line, 150 or 300 pixels apart; the browser sends
\* pointerdown for a contact that is not down yet
TouchContacts ==
    { <<1, Client(70, 10)>>, <<2, Client(160, 130)>>, <<3, Client(250, 250)>> }

TouchIds == { c[1] : c \in TouchContacts }

NextTouch ==
    \/ \E c \in TouchContacts :
            /\ ~MapHas(activePointers, c[1])
            /\ GridEditor_handlePointerDown(c[1], c[2])
    \/ \E c \in TouchContacts : GridEditor_handlePointerMove(c[1], c[2])
    \/ \E id \in TouchIds : GridEditor_handlePointerUp(id)

\* GridEditor with up to three contacts
SpecTouch == InitGesture /\ [][NextTouch]_vars

\* Two fingers on the board's canvas, each with its own pointerId: the first on
\* cell 0 or cell 24, the second on cell 12 or cell 24.  The browser sends
\* pointerdown for a contact that is not down yet, and pointermove and pointerup
\* or pointercancel for one that is.
BoardContacts ==
    { <<1, Client(50, 50)>>, <<1, Client(250, 250)>>,
      <<2, Client(150, 150)>>, <<2, Client(250, 250)>> }

InitBoard ==
    /\ Loaded([width |-> 300, height |-> 300], UploadRect([width |-> 300, height |-> 300]), FALSE)
    /\ fnArgs = Null /\ fnRet = Null
    /\ lastOp = [op |-> "init"]

NextBoard ==
    \/ \E c \in BoardContacts :
            /\ c[1] \notin DOMAIN contacts
            /\ Board_onPointerDown(c[1], c[2])
    \/ \E c \in BoardContacts :
            /\ c[1] \in DOMAIN contacts
            /\ Board_onPointerMove(c[1], c[2])
    \/ \E c \in BoardContacts :
            /\ c[1] \in DOMAIN contacts
            /\ Board_onPointerUp(c[1])

\* BingoBoard with up to two contacts, from the moment the grid is confirmed
SpecBoard == InitBoard /\ [][NextBoard]_vars

\* App with both components: the editor and the board take turns as the grid is
\* confirmed and modified
\* The contacts on the editor: a first one at two places and a second one
AppContacts ==
    { <<1, Client(160, 130)>>, <<1, Client(250, 250)>>, <<2, Client(250, 250)>> }
\* The board's drags begin on the top-left cell and move to the bottom-right one
AppBoardDown == { Client(50, 50) }
AppBoardMove == { Client(250, 250) }
AppShuffleDraws == { [k \in 1..24 |-> Q(1, 2)] }

InitApp ==
    /\ Loaded([width |-> 300, height |-> 300], UploadRect([width |-> 300, height |-> 300]), TRUE)
    /\ fnArgs = Null /\ fnRet = Null
    /\ lastOp = [op |-> "init"]

NextApp ==
    \/ \E newSize \in BingoSize : handleSizeChange(newSize)
    \/ toggleEditing
    \/ \E rnd \in AppShuffleDraws : handleShuffle(rnd)
    \/ \E client \in AppBoardDown :
            BingoBoard_handlePointerDown(client) /\ UNCHANGED contacts
    \/ \E client \in AppBoardMove :
            BingoBoard_handlePointerMove(client) /\ UNCHANGED contacts
    \/ BingoBoard_handlePointerUp /\ UNCHANGED contacts
    \/ \E c \in AppContacts : GridEditor_handlePointerDown(c[1], c[2])
    \/ \E c \in AppContacts :
            nRectChanges < AppMaxRectChanges /\ GridEditor_handlePointerMove(c[1], c[2])
    \/ \E c \in AppContacts : GridEditor_handlePointerUp(c[1])

SpecApp == InitApp /\ [][NextApp]_vars

\* The pure functions, each applied to inputs drawn from bounded sets
InitUtils ==
    /\ AppInitial
    /\ fnArgs \in { Some(a) : a \in GeometryArgs \cup ShuffleArgs }
    /\ fnRet = Null
    /\ lastOp = [op |-> "init"]

NextUtils ==
    \/ callGetCellRect
    \/ callIsPointInRect
    \/ \E rnd \in [1..(MaxLen - 1) -> RandVals] : callShuffleArray(rnd)

SpecUtils == InitUtils /\ [][NextUtils]_vars

\* Image loads alone, with images of several shapes
NextLoad ==
    \/ \E file \in {Null} \cup { Some(f) : f \in MoreFiles } : handleImageUpload(file)
    \/ \E file \in MoreFiles, decodes \in BOOLEAN : readerOnload(file, decodes)
    \/ \E newSize \in BingoSize : handleSizeChange(newSize)
    \/ toggleEditing
    \/ \E rnd \in ShuffleDraws : handleShuffle(rnd)

SpecLoad == Init /\ [][NextLoad]_vars

\* The export, applied to boards the program can show: an image, a region the
\* editor can leave (as loaded, dragged partly off the image, resized), a grid
\* size, and a mapping that swaps and shuffles produce
ExportImages == { [width |-> 300, height |-> 300], [width |-> 400, height |-> 200] }
ExportRects(img) ==
    LET r == UploadRect(img)
    IN  { r,
          MovedRect(r, Pos(N(70), N(10)), Pos(N(160), N(130))),
          ResizedRect(r, Pos(N(200), N(150)), Pos(N(250), N(170))) }
ExportMappings(size) ==
    LET id == initializeMapping(size)
    IN  { id,
          SwappedMapping(id, 0, size * size - 1),
          SwappedMapping(SwappedMapping(id, 0, 1), 1, size + 1),
          ShuffledMapping(id, [k \in 1..24 |-> Q(1, 2)]) }

InitExport ==
    /\ \E img \in ExportImages, size \in BingoSize :
         /\ image = Some(img)
         /\ \E r \in ExportRects(img) : gridConfig = [size |-> size, rect |-> r]
         /\ mapping \in ExportMappings(size)
    /\ isEditingGrid = FALSE
    /\ pendingLoads = {}
    /\ crashed = FALSE
    /\ draggedIdx = Null /\ hoverIdx = Null /\ dragPos = Pos(N(0), N(0))
    /\ contacts = <<>>
    /\ isDragging = FALSE /\ dragMode = "null" /\ startPos = Pos(N(0), N(0))
    /\ activePointers = <<>> /\ initialPinchDist = Null /\ initialRectSize = Null
    /\ pinchStart = Null
    /\ nShuffles = 0 /\ nRectChanges = 0
    /\ fnArgs = Null /\ fnRet = Null
    /\ lastOp = [op |-> "init"]

NextExport == \E ctxOk \in BOOLEAN : downloadImage(ctxOk)

SpecExport == InitExport /\ [][NextExport]_vars

-----------------------------------------------------------------------------
(* Properties *)

\* mp is the identity mapping of n entries
IsIdentity(mp, n) ==
    /\ Len(mp) = n
    /\ \A i \in 1..n : mp[i].currentPos = i - 1 /\ mp[i].originalPos = i - 1

OriginalPositions(mp) == { mp[i].originalPos : i \in 1..Len(mp) }

\* C1: once an image is loaded, after any sequence of swaps, shuffles, grid-size
\* changes and image re-loads the mapping has size*size entries for the current
\* size, and its originalPos values are a permutation of 0..size*size-1 (none
\* duplicated, none out of range).
C1_MappingIsPermutation ==
    image # Null =>
        /\ Len(mapping) = gridConfig.size * gridConfig.size
        /\ OriginalPositions(mapping) = 0..(Len(mapping) - 1)

\* A swap after a shuffle has left a mapping that is not the identity
C1_Witness ==
    /\ image # Null
    /\ nShuffles > 0
    /\ lastOp.op = "BingoBoard.handlePointerUp" /\ lastOp.swap = "done"
    /\ ~IsIdentity(mapping, Len(mapping))

\* C2: handleSizeChange to any size of {3,4,5} leaves the mapping equal to the
\* identity of newSize*newSize entries (currentPos = originalPos = i at entry i),
\* whatever swaps or shuffles came before.
C2_SizeChangeResetsMapping ==
    lastOp.op = "handleSizeChange" =>
        IsIdentity(mapping, gridConfig.size * gridConfig.size)

\* The size was changed while the mapping was permuted
C2_Witness ==
    /\ lastOp.op = "handleSizeChange" /\ lastOp.permuted
    /\ IsIdentity(mapping, gridConfig.size * gridConfig.size)

\* C3: a drag of the board that ends (contact-end or cancel) while the hover
\* target is the dragged cell itself issues no swap and leaves the mapping
\* unchanged.
C3_DropOnSelfIsNoOp ==
    [][ ( /\ lastOp'.op = "BingoBoard.handlePointerUp"
          /\ draggedIdx # Null /\ hoverIdx = draggedIdx )
        => (mapping' = mapping /\ lastOp'.swap = "none") ]_vars

\* A drag has ended on the cell it began on
C3_Witness ==
    /\ lastOp.op = "BingoBoard.handlePointerUp"
    /\ lastOp.dragged # Null /\ lastOp.hover = lastOp.dragged
    /\ draggedIdx = Null

\* C4: every rectangle the editor emits from a resize update or a pinch update
\* has width >= 40 and height >= 40, whatever the pointer delta or the scale.
C4_EmittedRectAtLeastMin ==
    (lastOp.op = "GridEditor.handlePointerMove" /\ lastOp.update \in {"resize", "pinch"}) =>
        /\ lastOp.emitted = Some(gridConfig.rect)
        /\ RGe(gridConfig.rect.width, N(40))
        /\ RGe(gridConfig.rect.height, N(40))

\* A resize that took the pointer above the rectangle's top edge (a height below
\* zero before the clamp) was clamped to 40 by 40
C4_Witness ==
    /\ lastOp.op = "GridEditor.handlePointerMove" /\ lastOp.update = "resize"
    /\ gridConfig.rect.width = N(40) /\ gridConfig.rect.height = N(40)
    /\ RLt(lastOp.pos.y, gridConfig.rect.y)

Midpoint(r) == Pos(RAdd(r.x, RDiv(r.width, N(2))), RAdd(r.y, RDiv(r.height, N(2))))

\* C5: a pinch update sets width and height to max(40, baselineSize *
\* currentDistance / baselineDistance) per axis and keeps the rectangle's midpoint
\* (x = centerX - width/2, y = centerY - height/2); from {0,0,100,100} a scale of
\* 2 gives {-50,-50,200,200}; and the midpoint stays fixed throughout one pinch
\* gesture.
C5_PinchScalesAboutCentre ==
    [][ /\ ( lastOp'.op = "GridEditor.handlePointerMove" /\ lastOp'.update = "pinch" ) =>
            LET old  == gridConfig.rect
                new  == gridConfig'.rect
                pts  == MapValues(activePointers')
                dist == getDistance(pts[1], pts[2])
                base == Val(initialPinchDist)
                size == Val(initialRectSize)
                wide == RDiv(RMul(size.w, dist), base)
                high == RDiv(RMul(size.h, dist), base)
            IN  /\ new.width  = (IF RLt(wide, N(40)) THEN N(40) ELSE wide)
                /\ new.height = (IF RLt(high, N(40)) THEN N(40) ELSE high)
                /\ Midpoint(new) = Midpoint(old)
                /\ ( /\ old = Rect(N(0), N(0), N(100), N(100))
                     /\ size = [w |-> N(100), h |-> N(100)]
                     /\ dist = RMul(N(2), base) )
                   => new = Rect(N(-50), N(-50), N(200), N(200))
        /\ (dragMode = "pinch" /\ dragMode' = "pinch") =>
            Midpoint(gridConfig'.rect) = Midpoint(gridConfig.rect) ]_vars

\* The pinch of {0,0,100,100} by a scale of 2 has given {-50,-50,200,200}
C5_Witness ==
    /\ lastOp.op = "GridEditor.handlePointerMove" /\ lastOp.update = "pinch"
    /\ nRectChanges = 1
    /\ initialRectSize = Some([w |-> N(100), h |-> N(100)])
    /\ gridConfig.rect = Rect(N(-50), N(-50), N(200), N(200))

RECURSIVE SumOfAreas(_, _)
SumOfAreas(cells, n) ==
    IF n = 0 THEN N(0)
    ELSE RAdd(SumOfAreas(cells, n - 1), RMul(cells[n - 1].width, cells[n - 1].height))

\* a lies within b, edges included
Within(a, b) ==
    /\ RLe(b.x, a.x) /\ RLe(RAdd(a.x, a.width), RAdd(b.x, b.width))
    /\ RLe(b.y, a.y) /\ RLe(RAdd(a.y, a.height), RAdd(b.y, b.height))

\* a and b share no interior point
InteriorsDisjoint(a, b) ==
    \/ RLe(RAdd(a.x, a.width), b.x)  \/ RLe(RAdd(b.x, b.width), a.x)
    \/ RLe(RAdd(a.y, a.height), b.y) \/ RLe(RAdd(b.y, b.height), a.y)

\* C6: for every region and every size of {3,4,5} the size*size rectangles of
\* getCellRect tile the region exactly: each is region.width/size wide and
\* region.height/size high, index i lies at row i div size and column i mod size,
\* no two cells overlap in their interiors, and their union is the region (every
\* cell lies within the region and their areas add up to the region's).
C6_CellsTileRegion ==
    (fnRet # Null /\ Val(fnRet).fn = "getCellRect") =>
        LET cells  == Val(fnRet).cells
            region == Val(fnArgs).rect
            size   == Val(fnArgs).size
            n      == size * size
        IN  /\ DOMAIN cells = 0..(n - 1)
            /\ \A i \in 0..(n - 1) :
                 /\ RMul(cells[i].width, N(size)) = region.width
                 /\ RMul(cells[i].height, N(size)) = region.height
                 /\ RSub(cells[i].x, region.x) = RMul(N(i % size), cells[i].width)
                 /\ RSub(cells[i].y, region.y) = RMul(N(i \div size), cells[i].height)
                 /\ Within(cells[i], region)
            /\ \A i, j \in 0..(n - 1) : i # j => InteriorsDisjoint(cells[i], cells[j])
            /\ SumOfAreas(cells, n) = RMul(region.width, region.height)

\* A region of 210 by 281/2 at a fractional place is cut into 4 by 4 cells
C6_Witness ==
    /\ fnRet # Null /\ Val(fnRet).fn = "getCellRect"
    /\ Val(fnArgs).size = 4
    /\ Val(fnArgs).rect = Rect(Q(-35, 2), N(30), N(210), Q(281, 2))
    /\ Val(fnRet).cells[15].width = Q(105, 2)

\* lo <= v <= lo + len
InClosedRange(v, lo, len) ==
    LET d == RSub(v, lo)
    IN  d[1] >= 0 /\ d[1] * len[2] <= len[1] * d[2]

\* C7: isPointInRect(px, py, rect) is true exactly when rect.x <= px <= rect.x +
\* rect.width and rect.y <= py <= rect.y + rect.height; a point on any of the four
\* edges or corners is inside.
C7_PointInRectInclusive ==
    (fnRet # Null /\ Val(fnRet).fn = "isPointInRect") =>
        LET a == Val(fnArgs)
        IN  Val(fnRet).value =
                ( /\ InClosedRange(a.px, a.rect.x, a.rect.width)
                  /\ InClosedRange(a.py, a.rect.y, a.rect.height) )

\* The bottom-right corner of the rectangle was found inside it
C7_Witness ==
    /\ fnRet # Null /\ Val(fnRet).fn = "isPointInRect"
    /\ Val(fnArgs).px = RAdd(Val(fnArgs).rect.x, Val(fnArgs).rect.width)
    /\ Val(fnArgs).py = RAdd(Val(fnArgs).rect.y, Val(fnArgs).rect.height)
    /\ Val(fnRet).value = TRUE

Occurrences(seq, e) == Cardinality({ k \in 1..Len(seq) : seq[k] = e })

\* C8: for every input and every outcome of the random choices shuffleArray
\* returns a permutation of its input (same length, same multiset of elements),
\* and the input array is the same after the call.
C8_ShuffleIsPermutation ==
    (fnRet # Null /\ Val(fnRet).fn = "shuffleArray") =>
        LET r == Val(fnRet)
        IN  /\ Len(r.result) = Len(r.input)
            /\ \A e \in Elements : Occurrences(r.result, e) = Occurrences(r.input, e)
            /\ Val(fnArgs).array = r.input

\* An array with a repeated element came back in another order
C8_Witness ==
    /\ fnRet # Null /\ Val(fnRet).fn = "shuffleArray"
    /\ Val(fnRet).input = <<"a", "b", "a", "c">>
    /\ Val(fnRet).result = <<"c", "a", "a", "b">>

\* The positions whose cell rectangle covers point p
CellsCovering(rect, size, p) ==
    { i \in 0..(size * size - 1) :
        LET c == getCellRect(rect, size, i) IN Covers(c.x, c.y, c.width, c.height, p) }

\* The point of the source image that the export shows at point p of cell i:
\* the point at the same place within the cell of mapping[i].originalPos
SourcePoint(rect, size, mp, i, p) ==
    LET target == getCellRect(rect, size, i)
        source == getCellRect(rect, size, mp[i + 1].originalPos)
    IN  Pos(RAdd(source.x, RSub(p.x, target.x)), RAdd(source.y, RSub(p.y, target.y)))

InImage(img, q) == Covers(N(0), N(0), N(img.width), N(img.height), q)

\* C9: downloadImage produces a bitmap of the image's dimensions in which every
\* point of the cell rectangle of position i shows the source image's pixel at the
\* same place of the cell rectangle of mapping[i].originalPos (taken from the
\* source image itself, wherever the source image has a pixel there), and every
\* point outside the region shows the source image's pixel at that point.
C9_ExportPlacesCells ==
    (lastOp.op = "downloadImage" /\ lastOp.canvas # Null) =>
        LET cv   == Val(lastOp.canvas)
            img  == Val(image)
            rect == gridConfig.rect
            size == gridConfig.size
        IN  /\ DOMAIN cv = SamplePoints(img.width, img.height)
            /\ \A p \in DOMAIN cv :
                 LET at == CellsCovering(rect, size, p)
                 IN  /\ Cardinality(at) <= 1
                     /\ at = {} => cv[p] = Some(p)
                     /\ \A i \in at :
                          LET q == SourcePoint(rect, size, mapping, i, p)
                          IN  InImage(img, q) => cv[p] = Some(q)

\* The 300 by 300 image, the region as loaded, size 3, cells 0 and 8 swapped: the
\* top-left cell shows the bottom-right cell's pixels and the bottom-right cell
\* the top-left cell's, the centre cell and the outside show their own
C9_Witness ==
    /\ lastOp.op = "downloadImage" /\ lastOp.canvas # Null
    /\ image = Some([width |-> 300, height |-> 300])
    /\ gridConfig = [size |-> 3, rect |-> Rect(N(45), N(45), N(210), N(210))]
    /\ mapping = SwappedMapping(initializeMapping(3), 0, 8)
    /\ Val(lastOp.canvas)[Pos(N(50), N(75))] = Some(Pos(N(190), N(215)))
    /\ Val(lastOp.canvas)[Pos(N(200), N(250))] = Some(Pos(N(60), N(110)))
    /\ Val(lastOp.canvas)[Pos(N(150), N(150))] = Some(Pos(N(150), N(150)))
    /\ Val(lastOp.canvas)[Pos(N(25), N(275))] = Some(Pos(N(25), N(275)))

\* C10: every image load sets the region to the centred square whose side is 70%
\* of min(image.width, image.height), x = (width - side)/2, y = (height - side)/2
\* (a 300 by 300 image: 210 by 210 at (45,45)), and resets the mapping to the
\* identity, whatever swaps or shuffles came before.
C10_LoadResetsRegionAndMapping ==
    (lastOp.op = "readerOnload" /\ lastOp.decodes) =>
        LET img  == Val(image)
            least == IF img.width < img.height THEN img.width ELSE img.height
            side == Q(7 * least, 10)
            rect == gridConfig.rect
        IN  /\ rect.width = side /\ rect.height = side
            /\ RAdd(RAdd(rect.x, rect.x), side) = N(img.width)
            /\ RAdd(RAdd(rect.y, rect.y), side) = N(img.height)
            /\ (img = [width |-> 300, height |-> 300]
                  => rect = Rect(N(45), N(45), N(210), N(210)))
            /\ IsIdentity(mapping, Len(mapping))
            /\ Len(mapping) = gridConfig.size * gridConfig.size

\* An image that is wider than high was loaded over a shuffled mapping
C10_Witness ==
    /\ lastOp.op = "readerOnload" /\ lastOp.decodes /\ lastOp.permuted
    /\ nShuffles > 0
    /\ image = Some([width |-> 400, height |-> 200])
    /\ gridConfig.rect = Rect(N(130), N(30), N(140), N(140))

\* The bottom-right corner of a rectangle
Corner(r) == Pos(RAdd(r.x, r.width), RAdd(r.y, r.height))

\* p is nearer than 30 pixels to corner c on both axes
OnHandle(p, c) ==
    /\ RLt(RSub(p.x, c.x), N(30)) /\ RLt(RSub(c.x, p.x), N(30))
    /\ RLt(RSub(p.y, c.y), N(30)) /\ RLt(RSub(c.y, p.y), N(30))

\* p is inside rectangle r, its boundary included
InsideOrOnEdge(p, r) ==
    /\ RLe(r.x, p.x) /\ RLe(p.x, Corner(r).x)
    /\ RLe(r.y, p.y) /\ RLe(p.y, Corner(r).y)

ActiveIds == { activePointers[k].id : k \in 1..Len(activePointers) }

\* C12: in the editor a contact-move, contact-end or contact-cancel whose
\* identifier is not in the active-contact set is ignored: the active set, the
\* gesture mode, the anchor, the pinch baselines and the rectangle are unchanged.
C12_UntrackedContactIgnored ==
    [][ (/\ lastOp'.op \in {"GridEditor.handlePointerMove", "GridEditor.handlePointerUp"}
         /\ lastOp'.pointerId \notin ActiveIds)
            => UNCHANGED <<activePointers, dragMode, startPos, initialPinchDist,
                           initialRectSize, gridConfig>>
      ]_vars

\* mp2 is mp with the originalPos of positions a and b exchanged and nothing else
\* changed
Exchanged(mp, mp2, a, b) ==
    /\ a < Len(mp) /\ b < Len(mp)
    /\ Len(mp2) = Len(mp)
    /\ mp2[a + 1].originalPos = mp[b + 1].originalPos
    /\ mp2[b + 1].originalPos = mp[a + 1].originalPos
    /\ \A i \in 1..Len(mp) :
         /\ mp2[i].currentPos = mp[i].currentPos
         /\ (i # a + 1 /\ i # b + 1) => mp2[i].originalPos = mp[i].originalPos

\* C13: when a board drag of cell a ends with hover target b set and b # a, the
\* mapping afterwards has the originalPos of positions a and b exchanged, every
\* other originalPos and every currentPos unchanged; the same swap applied again
\* restores the mapping.
C13_DropExchangesOriginalPos ==
    [][ (/\ lastOp'.op = "BingoBoard.handlePointerUp"
         /\ draggedIdx # Null /\ hoverIdx # Null /\ draggedIdx # hoverIdx)
            => /\ Exchanged(mapping, mapping', Val(draggedIdx), Val(hoverIdx))
               /\ Exchanged(mapping', mapping, Val(draggedIdx), Val(hoverIdx))
      ]_vars

\* C14: on the board every contact-end or contact-cancel leaves the dragged index
\* and the hover index none, whether or not a swap occurred; a drag that ends
\* while the hover target is none leaves the mapping unchanged; a contact-begin
\* outside every cell starts no drag.
C14_ContactEndClearsDrag ==
    [][ /\ lastOp'.op = "BingoBoard.handlePointerUp"
            => /\ draggedIdx' = Null /\ hoverIdx' = Null
               /\ hoverIdx = Null => mapping' = mapping
        /\ (/\ lastOp'.op = "BingoBoard.handlePointerDown"
            /\ \A i \in 0..(gridConfig.size * gridConfig.size - 1) :
                 ~InsideOrOnEdge(lastOp'.pos, getCellRect(gridConfig.rect, gridConfig.size, i)))
            => draggedIdx' = draggedIdx
      ]_vars

\* C20: under every interleaving of board gestures with grid-size changes and
\* shuffles, the dragged index and the hover index, whenever set, are positions of
\* the current mapping, in 0..size*size-1 for the current size.
C20_DragIndicesAddressMapping ==
    /\ draggedIdx # Null =>
          Val(draggedIdx) \in 0..(gridConfig.size * gridConfig.size - 1)
                               \cap 0..(Len(mapping) - 1)
    /\ hoverIdx # Null =>
          Val(hoverIdx) \in 0..(gridConfig.size * gridConfig.size - 1)
                             \cap 0..(Len(mapping) - 1)

\* C15: a contact-begin with no prior active contact at p enters resize mode if p
\* is nearer than 30 pixels on both axes to the rectangle's bottom-right corner
\* (also when p is inside the rectangle), otherwise move mode if p is inside the
\* rectangle (boundary included), and is otherwise ignored: the mode stays none,
\* no gesture starts, and neither it nor a later move of that lone contact
\* changes the rectangle.  In the first two cases p becomes the anchor.
C15_ContactBeginClassified ==
    [][ /\ (lastOp'.op = "GridEditor.handlePointerDown" /\ activePointers = <<>>)
            => LET p == lastOp'.pos
                   r == gridConfig.rect
               IN  /\ gridConfig' = gridConfig
                   /\ dragMode = "null"
                   /\ IF OnHandle(p, Corner(r))
                      THEN dragMode' = "resize-br" /\ startPos' = p /\ isDragging'
                      ELSE IF InsideOrOnEdge(p, r)
                      THEN dragMode' = "move" /\ startPos' = p /\ isDragging'
                      ELSE dragMode' = "null" /\ startPos' = startPos /\ ~isDragging'
        /\ (/\ lastOp'.op = "GridEditor.handlePointerMove"
            /\ Len(activePointers) = 1 /\ dragMode = "null")
            => gridConfig' = gridConfig /\ dragMode' = "null"
      ]_vars

\* A contact that began outside the rectangle was ignored and has then moved to a
\* place inside the rectangle, after an earlier gesture had changed the rectangle
C15_Witness ==
    /\ lastOp.op = "GridEditor.handlePointerMove"
    /\ Len(activePointers) = 1 /\ dragMode = "null" /\ ~isDragging
    /\ InsideOrOnEdge(lastOp.pos, gridConfig.rect)
    /\ nRectChanges > 0

\* C17: in move mode with exactly one active contact each contact-move translates
\* the rectangle by (new position - anchor), makes the new position the anchor and
\* leaves width and height unchanged, so the offset between the rectangle's
\* corner and the anchor is the same throughout a move gesture: x,y are their
\* values at gesture start plus (latest position - position at gesture start).
\* A resize update changes only width and height.
C17_MoveTranslatesResizeKeepsOrigin ==
    [][ /\ (/\ lastOp'.op = "GridEditor.handlePointerMove"
            /\ dragMode = "move" /\ ActiveIds = {lastOp'.pointerId})
            => LET p == lastOp'.pos
                   r == gridConfig.rect
                   t == gridConfig'.rect
               IN  /\ t.x = RAdd(r.x, RSub(p.x, startPos.x))
                   /\ t.y = RAdd(r.y, RSub(p.y, startPos.y))
                   /\ t.width = r.width /\ t.height = r.height
                   /\ startPos' = p
                   /\ RSub(t.x, startPos'.x) = RSub(r.x, startPos.x)
                   /\ RSub(t.y, startPos'.y) = RSub(r.y, startPos.y)
        /\ (/\ lastOp'.op = "GridEditor.handlePointerMove"
            /\ dragMode = "resize-br" /\ ActiveIds = {lastOp'.pointerId})
            => /\ gridConfig'.rect.x = gridConfig.rect.x
               /\ gridConfig'.rect.y = gridConfig.rect.y
               /\ startPos' = lastOp'.pos
      ]_vars

\* Two moves of one gesture that began at (225,225) on the region as loaded at
\* (45,45): the pointer is at (45,150), the region at (45 - 180, 45 - 75)
C17_Witness ==
    /\ lastOp.op = "GridEditor.handlePointerMove" /\ lastOp.update = "move"
    /\ nRectChanges = 2
    /\ lastOp.pos = Pos(N(45), N(150))
    /\ gridConfig.rect = Rect(N(-135), N(-30), N(210), N(210))

\* C16: a contact-begin that raises the number of active contacts to exactly two
\* switches the mode to pinch whatever the mode was before (none, move or resize)
\* and records as baselines the distance between the two active contacts at that
\* moment and the rectangle's width and height at that moment.
C16_SecondContactStartsPinch ==
    [][ (/\ lastOp'.op = "GridEditor.handlePointerDown"
         /\ Len(activePointers) = 1 /\ Len(activePointers') = 2)
            => /\ dragMode' = "pinch"
               /\ gridConfig' = gridConfig
               /\ initialPinchDist' # Null
               /\ LET d == Val(initialPinchDist')
                      a == activePointers'[1].pos
                      b == activePointers'[2].pos
                  IN  /\ RGe(d, N(0))
                      /\ RMul(d, d) = RAdd(RMul(RSub(a.x, b.x), RSub(a.x, b.x)),
                                           RMul(RSub(a.y, b.y), RSub(a.y, b.y)))
                      /\ b = lastOp'.pos /\ a = activePointers[1].pos
               /\ initialRectSize' = Some([w |-> gridConfig.rect.width,
                                           h |-> gridConfig.rect.height])
      ]_vars

\* A second contact began during a resize of a rectangle whose size an earlier
\* gesture had changed
C16_Witness ==
    /\ lastOp.op = "GridEditor.handlePointerDown"
    /\ lastOp.prior = "resize-br"
    /\ Len(activePointers) = 2
    /\ dragMode = "pinch"
    /\ initialPinchDist = Some(N(150))
    /\ initialRectSize # Some([w |-> N(210), h |-> N(210)])
    /\ initialRectSize # Some([w |-> N(100), h |-> N(100)])

\* C18: when a contact-end or cancel leaves exactly one active contact the mode
\* becomes none and move is not restarted: while the mode is none no contact-move
\* changes the rectangle or the mode, and the mode leaves none only through a
\* contact-begin: of a first contact (move or resize) or of a second one (pinch).
C18_OneContactLeftIsNoGesture ==
    [][ /\ (lastOp'.op = "GridEditor.handlePointerUp" /\ Len(activePointers') = 1)
            => dragMode' = "null"
        /\ (lastOp'.op = "GridEditor.handlePointerMove" /\ dragMode = "null")
            => gridConfig' = gridConfig /\ dragMode' = "null"
        /\ (dragMode = "null" /\ dragMode' # "null")
            => /\ lastOp'.op = "GridEditor.handlePointerDown"
               /\ lastOp'.pointerId \notin ActiveIds
                    => \/ activePointers = <<>> /\ dragMode' \in {"move", "resize-br"}
                       \/ Len(activePointers) = 1 /\ dragMode' = "pinch"
      ]_vars

\* One contact of a pinch has ended and the other has moved since, to a place
\* inside the rectangle
C18_Witness ==
    /\ lastOp.op = "GridEditor.handlePointerMove" /\ lastOp.update = "none"
    /\ Len(activePointers) = 1 /\ lastOp.pointerId \in ActiveIds
    /\ dragMode = "null" /\ isDragging
    /\ initialPinchDist # Null
    /\ InsideOrOnEdge(lastOp.pos, gridConfig.rect)
    /\ lastOp.pos # startPos

BoardGestures ==
    { "BingoBoard.handlePointerDown", "BingoBoard.handlePointerMove",
      "BingoBoard.handlePointerUp" }
EditorGestures ==
    { "GridEditor.handlePointerDown", "GridEditor.handlePointerMove",
      "GridEditor.handlePointerUp" }

\* C19: no board gesture (contact-begin, move, end or cancel, a swap included) and
\* no shuffle changes the region rectangle or the grid size; no editor gesture
\* changes the mapping or the grid size; a grid-size change leaves the rectangle
\* unchanged; toggling between confirm and modify changes neither rectangle, grid
\* size nor mapping.
C19_OwnershipRespected ==
    [][ /\ lastOp'.op \in BoardGestures \cup {"handleShuffle"}
            => gridConfig' = gridConfig
        /\ lastOp'.op \in EditorGestures
            => mapping' = mapping /\ gridConfig'.size = gridConfig.size
        /\ lastOp'.op = "handleSizeChange"
            => gridConfig'.rect = gridConfig.rect
        /\ lastOp'.op = "toggleEditing"
            => gridConfig' = gridConfig /\ mapping' = mapping
      ]_vars

\* An editor gesture has changed the rectangle of a grid of size 3 whose mapping a
\* swap or shuffle on the board had permuted
C19_Witness ==
    /\ lastOp.op = "GridEditor.handlePointerMove" /\ lastOp.update # "none"
    /\ gridConfig.size = 3
    /\ mapping # initializeMapping(3)
    /\ gridConfig.rect # UploadRect(Val(image))

\* C21: whenever the editor has applied a pinch update, the baseline distance it
\* scaled by is the distance that separated the two active contacts when the
\* number of contacts last became two, and the baseline size is the rectangle's
\* size at that moment, a third contact that began and a contact that then ended
\* included
C21_PinchBaselineIsOfActivePair ==
    (lastOp.op = "GridEditor.handlePointerMove" /\ lastOp.update = "pinch")
        => /\ Len(activePointers) = 2
           /\ dragMode = "pinch"
           /\ pinchStart # Null
           /\ initialPinchDist = Some(Val(pinchStart).dist)
           /\ initialRectSize = Some(Val(pinchStart).size)

\* C22: every swap the board issues at a contact-end is between the cell on which
\* the ending contact's drag began and the cell containing the last position
\* that same contact reported, whatever other contacts began or ended meanwhile
C22_SwapIsOfEndingDrag ==
    [][ (lastOp'.op = "BingoBoard.handlePointerUp" /\ lastOp'.swap \in {"done", "threw"})
            => \E k \in DOMAIN contacts \ DOMAIN contacts' :
                   /\ contacts[k].began = lastOp'.dragged
                   /\ CellAt(gridConfig.rect, gridConfig.size, contacts[k].last)
                          = lastOp'.hover
      ]_vars

\* C23: an image re-upload (a file decoded while an image is already shown) leaves
\* the grid size as the user had selected it before the re-upload
C23_ReuploadKeepsGridSize ==
    [][ (lastOp'.op = "readerOnload" /\ lastOp'.decodes /\ image # Null)
            => gridConfig'.size = gridConfig.size
      ]_vars

=============================================================================
